---- MODULE Spec2Model ----
(***************************************************************************)
(* Model of src/dublicates_remover.py: IMAPDuplicateRemover.               *)
(* process_folder, worker and remove_duplicates, together with the part of *)
(* the IMAP session (imaplib) and mailbox state that these methods act on. *)
(***************************************************************************)
EXTENDS Integers, Sequences, FiniteSets, TLC

\* ---------------------------------------------------------------- bounds
MaxThreads == 2          \* largest num_threads tried
MaxFolders == 2          \* longest folder list of a pool run
MaxMsgs == 3             \* longest folder of a single-folder run
MaxFaults == 1           \* failing session operations in a pool run
AnyFaults == 0 - 1       \* no limit on failing session operations
MaxName == 4             \* longest name given to decode_folder_name
MaxLines == 2            \* longest folder listing given to get_folders

Workers == 1..MaxThreads
Fingerprints == {"A", "C"}        \* values of get_message_hash
None == 0                         \* the stop signal put on the queue

VARIABLES
  num_threads,   \* self.num_threads
  dry_run,       \* the dry_run argument of remove_duplicates
  folders,       \* the folders argument: sequence of folder names
  server,        \* mailbox on the server: folder name -> messages and flags
  snapshot,      \* the mailbox as it was when the run started
  mainpc,        \* position of remove_duplicates
  mi,            \* loop index of remove_duplicates
  threads,       \* number of worker threads started
  queue,         \* Queue(): items waiting
  unfinished,    \* Queue.unfinished_tasks
  pc,            \* position of each worker thread
  frame,         \* locals of each worker's process_folder call
  trace,         \* session operations issued by the current call, with outcome
  tmp,           \* value loaded by a worker for a `+=` on self.stats
  lock,          \* self.lock: 0 when free, else the holder
  stats,         \* self.stats
  results,       \* the results list
  takenBy,       \* per folder name: how many times a worker dequeued it
  failedOpen,    \* folder-list entries whose select did not return OK
  faults,        \* failures the environment may still inject; < 0: any number
  sessions,      \* sessions connected and not yet logged out, by owner
  codec,         \* a call of decode_folder_name: its argument and result
  listing        \* a call of get_folders: its arguments, position and result

vars == <<num_threads, dry_run, folders, server, snapshot, mainpc, mi,
          threads, queue, unfinished, pc, frame, trace, tmp, lock, stats,
          results, takenBy, failedOpen, faults, sessions, codec, listing>>

\* ------------------------------------------------------------- helpers
Min(a, b) == IF a < b THEN a ELSE b

Range(s) == {s[k] : k \in 1..Len(s)}

RECURSIVE SumSeq(_)
SumSeq(s) == IF s = <<>> THEN 0 ELSE Head(s) + SumSeq(Tail(s))

RECURSIVE Flatten(_)
Flatten(ss) == IF ss = <<>> THEN <<>> ELSE Head(ss) \o Flatten(Tail(ss))

\* all sequences over S of length at most n
SeqsUpTo(S, n) == UNION {[1..k -> S] : k \in 0..n}

\* ------------------------------------------------------ mailbox (server)
\* A folder on the server: fp[i] is the fingerprint of message i, and the
\* sets hold the messages flagged \Deleted, flagged \Seen, and expunged.
Mailbox(fps, del, seen) ==
  [fp |-> fps, deleted |-> del, seen |-> seen, gone |-> {}]

\* mail.search(None, 'ALL'): the messages of the folder, ascending
SearchAll(box) ==
  SelectSeq([k \in 1..Len(box.fp) |-> k], LAMBDA k : k \notin box.gone)

\* mail.fetch(id, '(RFC822)') on a folder selected with readonly=False:
\* RFC822 is BODY[], which sets \Seen
FetchEffect(box, id) == [box EXCEPT !.seen = @ \cup {id}]

\* mail.store(id, '+FLAGS', '\\Deleted')
StoreEffect(box, id) == [box EXCEPT !.deleted = @ \cup {id}]

\* mail.expunge(): removes the messages flagged \Deleted
ExpungeEffect(box) == [box EXCEPT !.gone = @ \cup box.deleted]

\* mail.close() of a selected writable folder (imaplib: "Deleted messages
\* are removed from writable mailbox"); without a selected folder it has no
\* effect on the server
CloseEffect(box, selected) == IF selected THEN ExpungeEffect(box) ELSE box

\* ------------------------------------------------- process_folder locals
ZeroStats(f) ==
  [folder |-> f, total |-> 0, duplicates |-> 0, deleted |-> 0, errors |-> 0]

\* folder_stats not created afresh by the call: it starts from the dict of
\* the call that was folded last
NewFrameShared(w, f) ==
  [folder |-> f, mail |-> FALSE, selected |-> FALSE, message_ids |-> <<>>,
   i |-> 1, hash_to_ids |-> <<>>, todo |-> <<>>,
   duplicates_count |-> 0, deleted_count |-> 0,
   folder_stats |-> IF results = <<>> THEN ZeroStats(f)
                    ELSE [results[Len(results)] EXCEPT !.folder = f]]

\* locals at entry of process_folder(folder_name, dry_run)
NewFrame(w, f) ==
  [folder |-> f, mail |-> FALSE, selected |-> FALSE, message_ids |-> <<>>,
   i |-> 1, hash_to_ids |-> <<>>, todo |-> <<>>,
   duplicates_count |-> 0, deleted_count |-> 0,
   folder_stats |-> ZeroStats(f)]

NoFrame == [folder |-> None, mail |-> FALSE, selected |-> FALSE,
            message_ids |-> <<>>, i |-> 1, hash_to_ids |-> <<>>,
            todo |-> <<>>, duplicates_count |-> 0, deleted_count |-> 0,
            folder_stats |-> ZeroStats(None)]

\* hash_to_ids[msg_hash].append(msg_id), the dict kept in insertion order
AddToGroup(h2i, h, id) ==
  IF \E k \in 1..Len(h2i) : h2i[k].h = h
  THEN [k \in 1..Len(h2i) |->
          IF h2i[k].h = h THEN [h2i[k] EXCEPT !.ids = Append(@, id)]
          ELSE h2i[k]]
  ELSE Append(h2i, [h |-> h, ids |-> <<id>>])

\* the ids visited by `for duplicate_id in ids[1:]` over all groups, in order
Candidates(h2i) ==
  Flatten([k \in 1..Len(h2i) |-> Tail(h2i[k].ids)])

\* every member of a group of several messages counted as a duplicate
DuplicatesCountAll(h2i) ==
  SumSeq([k \in 1..Len(h2i) |->
            IF Len(h2i[k].ids) > 1 THEN Len(h2i[k].ids) ELSE 0])

\* duplicates_count after the loop over hash_to_ids.items()
DuplicatesCount(h2i) ==
  SumSeq([k \in 1..Len(h2i) |->
            IF Len(h2i[k].ids) > 1 THEN Len(h2i[k].ids) - 1 ELSE 0])

Op(o, a, r) == [op |-> o, arg |-> a, out |-> r]

\* the `except Exception` handler of process_folder
Except(fs) == [fs EXCEPT !.errors = @ + 1]

\* folder_stats['duplicates'] = ...; folder_stats['deleted'] = ...
Finalize(fr) ==
  [fr EXCEPT !.folder_stats.duplicates = fr.duplicates_count,
             !.folder_stats.deleted = fr.deleted_count]

\* return folder_stats: the locals of the call are gone, the dict remains
Return(fr) ==
  [folder |-> fr.folder, mail |-> FALSE, selected |-> FALSE,
   message_ids |-> <<>>, i |-> 1, hash_to_ids |-> <<>>, todo |-> <<>>,
   duplicates_count |-> 0, deleted_count |-> 0,
   folder_stats |-> fr.folder_stats]

\* the exception of mail.close() leaves process_folder and ends the thread
ClosePropagates == "dead"

\* where control goes when mail.close() raises: the bare `except: pass`
\* of the finally block swallows it and process_folder returns
CloseRaised == "fold"

\* ------------------------------------------------------------- sessions
\* self.connect() returned a session to the discovery or to a worker
Opened(ss, who) == [ss EXCEPT ![who] = @ + 1]

\* the sessions after mail.logout() with outcome r: imaplib shuts the
\* connection down only after the LOGOUT command returned, so a logout that
\* raised leaves the session as it was
LoggedOut(ss, who, r) ==
  IF r = "ok" THEN [ss EXCEPT ![who] = @ - 1] ELSE ss

\* ------------------------------------------------------- process_folder
\* the outcomes a session operation can have now
Outcomes(S) == IF faults = 0 THEN {"ok"} ELSE S

Log(w, o, a, r) ==
  /\ trace' = [trace EXCEPT ![w] = Append(@, Op(o, a, r))]
  /\ faults' = IF r = "ok" \/ faults < 0 THEN faults ELSE faults - 1

\* mail = self.connect()
connect(w) ==
  /\ pc[w] = "connect"
  /\ \E r \in Outcomes({"ok", "raise"}) :
       /\ Log(w, "connect", 0, r)
       /\ sessions' = IF r = "ok" THEN Opened(sessions, "workers")
                       ELSE sessions
       /\ IF r = "ok"
          THEN /\ frame' = [frame EXCEPT ![w].mail = TRUE]
               /\ pc' = [pc EXCEPT ![w] = "select"]
          ELSE \* except: errors += 1; finally: mail is None; return
               /\ frame' = [frame EXCEPT ![w].folder_stats = Except(@)]
               /\ pc' = [pc EXCEPT ![w] = "fold"]
  /\ UNCHANGED <<codec, listing>>
  /\ UNCHANGED <<num_threads, dry_run, folders, server, snapshot, mainpc, mi,
                 threads, queue, unfinished, tmp, lock, stats, results,
                 takenBy, failedOpen>>

\* mail.select('"{}"'.format(folder_name), readonly=False)
select_quoted(w) ==
  /\ pc[w] = "select"
  /\ \E r \in Outcomes({"ok", "no", "raise"}) :
       /\ Log(w, "select", 1, r)
       /\ frame' = [frame EXCEPT ![w].selected = (r = "ok")]
       /\ pc' = [pc EXCEPT ![w] = CASE r = "ok" -> "search"
                                    [] r = "no" -> "close"
                                    [] OTHER -> "select2"]
       /\ failedOpen' = IF r = "no" THEN failedOpen \cup {frame[w].folder}
                        ELSE failedOpen
  /\ UNCHANGED <<sessions, codec, listing>>
  /\ UNCHANGED <<num_threads, dry_run, folders, server, snapshot, mainpc, mi,
                 threads, queue, unfinished, tmp, lock, stats, results,
                 takenBy>>

\* the retry: mail.select(folder_name, readonly=False), failure swallowed
select_plain(w) ==
  /\ pc[w] = "select2"
  /\ \E r \in Outcomes({"ok", "no", "raise"}) :
       /\ Log(w, "select", 2, r)
       /\ frame' = [frame EXCEPT ![w].selected = (r = "ok")]
       /\ pc' = [pc EXCEPT ![w] = IF r = "ok" THEN "search" ELSE "close"]
       /\ failedOpen' = IF r # "ok" THEN failedOpen \cup {frame[w].folder}
                        ELSE failedOpen
  /\ UNCHANGED <<sessions, codec, listing>>
  /\ UNCHANGED <<num_threads, dry_run, folders, server, snapshot, mainpc, mi,
                 threads, queue, unfinished, tmp, lock, stats, results,
                 takenBy>>

\* mail.search(None, 'ALL') up to the test for an empty folder
search(w) ==
  /\ pc[w] = "search"
  /\ \E r \in Outcomes({"ok", "no", "raise"}) :
       /\ Log(w, "search", 0, r)
       /\ LET ids == SearchAll(server[frame[w].folder]) IN
          CASE r = "ok" ->
                 /\ frame' = [frame EXCEPT ![w].message_ids = ids,
                                           ![w].folder_stats.total = Len(ids)]
                 /\ pc' = [pc EXCEPT ![w] = IF Len(ids) = 0 THEN "close"
                                            ELSE "fetch"]
            [] r = "no" ->
                 /\ frame' = frame
                 /\ pc' = [pc EXCEPT ![w] = "close"]
            [] OTHER ->
                 /\ frame' = [frame EXCEPT ![w].folder_stats = Except(@)]
                 /\ pc' = [pc EXCEPT ![w] = "close"]
  /\ UNCHANGED <<sessions, codec, listing>>
  /\ UNCHANGED <<num_threads, dry_run, folders, server, snapshot, mainpc, mi,
                 threads, queue, unfinished, tmp, lock, stats, results,
                 takenBy, failedOpen>>

\* what follows the marking loop: expunge if something was marked, else the
\* two assignments to folder_stats and the finally block
AfterMarks(fr) ==
  IF ~dry_run /\ fr.deleted_count > 0
  THEN [fr |-> fr, pc |-> "expunge"]
  ELSE [fr |-> Finalize(fr), pc |-> "close"]

\* the state after the fetch loop: groups are complete, the marking loop
\* starts; in a dry run the loop body does nothing
AfterFetch(fr) ==
  LET g == [fr EXCEPT !.duplicates_count = DuplicatesCount(fr.hash_to_ids)]
  IN IF ~dry_run /\ Candidates(fr.hash_to_ids) # <<>>
     THEN [fr |-> [g EXCEPT !.todo = Candidates(fr.hash_to_ids)],
           pc |-> "store"]
     ELSE AfterMarks(g)

\* one iteration of `for msg_id in message_ids`
fetch(w) ==
  /\ pc[w] = "fetch"
  /\ LET fr == frame[w]
         id == fr.message_ids[fr.i]
         f  == fr.folder
     IN \E r \in Outcomes({"ok", "no", "raise"}) :
          /\ Log(w, "fetch", id, r)
          /\ server' = IF r = "ok"
                       THEN [server EXCEPT ![f] = FetchEffect(@, id)]
                       ELSE server
          /\ LET fr1 == CASE r = "ok" ->
                              [fr EXCEPT !.hash_to_ids =
                                 AddToGroup(@, server[f].fp[id], id)]
                          [] r = "no" -> fr
                          [] OTHER -> [fr EXCEPT !.folder_stats.errors = @ + 1]
                 fr2 == [fr1 EXCEPT !.i = @ + 1]
                 nx  == IF fr.i < Len(fr.message_ids)
                        THEN [fr |-> fr2, pc |-> "fetch"]
                        ELSE AfterFetch(fr2)
             IN /\ frame' = [frame EXCEPT ![w] = nx.fr]
                /\ pc' = [pc EXCEPT ![w] = nx.pc]
  /\ UNCHANGED <<sessions, codec, listing>>
  /\ UNCHANGED <<num_threads, dry_run, folders, snapshot, mainpc, mi,
                 threads, queue, unfinished, tmp, lock, stats, results,
                 takenBy, failedOpen>>

\* mail.store(duplicate_id, '+FLAGS', '\\Deleted'); the returned status is
\* not looked at
store(w) ==
  /\ pc[w] = "store"
  /\ LET fr == frame[w]
         id == Head(fr.todo)
         f  == fr.folder
     IN \E r \in Outcomes({"ok", "no", "raise"}) :
          /\ Log(w, "store", id, r)
          /\ server' = IF r = "ok"
                       THEN [server EXCEPT ![f] = StoreEffect(@, id)]
                       ELSE server
          /\ LET fr1 == IF r = "raise"
                        THEN [fr EXCEPT !.folder_stats.errors = @ + 1]
                        ELSE [fr EXCEPT !.deleted_count = @ + 1]
                 fr2 == [fr1 EXCEPT !.todo = Tail(@)]
                 nx  == IF fr2.todo # <<>>
                        THEN [fr |-> fr2, pc |-> "store"]
                        ELSE AfterMarks(fr2)
             IN /\ frame' = [frame EXCEPT ![w] = nx.fr]
                /\ pc' = [pc EXCEPT ![w] = nx.pc]
  /\ UNCHANGED <<sessions, codec, listing>>
  /\ UNCHANGED <<num_threads, dry_run, folders, snapshot, mainpc, mi,
                 threads, queue, unfinished, tmp, lock, stats, results,
                 takenBy, failedOpen>>

\* mail.expunge(), then the assignments to folder_stats unless it raised
expunge(w) ==
  /\ pc[w] = "expunge"
  /\ LET fr == frame[w]
         f  == fr.folder
     IN \E r \in Outcomes({"ok", "no", "raise"}) :
          /\ Log(w, "expunge", 0, r)
          /\ server' = IF r = "ok"
                       THEN [server EXCEPT ![f] = ExpungeEffect(@)]
                       ELSE server
          /\ frame' = [frame EXCEPT ![w] =
                         IF r = "raise"
                         THEN [fr EXCEPT !.folder_stats = Except(@)]
                         ELSE Finalize(fr)]
          /\ pc' = [pc EXCEPT ![w] = "close"]
  /\ UNCHANGED <<sessions, codec, listing>>
  /\ UNCHANGED <<num_threads, dry_run, folders, snapshot, mainpc, mi,
                 threads, queue, unfinished, tmp, lock, stats, results,
                 takenBy, failedOpen>>

\* finally: mail.close()
close(w) ==
  /\ pc[w] = "close"
  /\ LET fr == frame[w]
         f  == fr.folder
     IN \E r \in Outcomes({"ok", "raise"}) :
          /\ Log(w, "close", 0, r)
          /\ sessions' = sessions       \* logout is skipped when close raises
          /\ server' = IF r = "ok"
                       THEN [server EXCEPT ![f] = CloseEffect(@, fr.selected)]
                       ELSE server
          /\ pc' = [pc EXCEPT ![w] = IF r = "ok" THEN "logout"
                                     ELSE CloseRaised]
          /\ frame' = IF r = "ok" THEN frame
                      ELSE [frame EXCEPT ![w] = Return(@)]
  /\ UNCHANGED <<codec, listing>>
  /\ UNCHANGED <<num_threads, dry_run, folders, snapshot, mainpc, mi,
                 threads, queue, unfinished, tmp, lock, stats, results,
                 takenBy, failedOpen>>

\* finally: mail.logout(); return folder_stats
logout(w) ==
  /\ pc[w] = "logout"
  /\ \E r \in Outcomes({"ok", "raise"}) :
       /\ Log(w, "logout", 0, r)
       /\ sessions' = LoggedOut(sessions, "workers", r)
  /\ pc' = [pc EXCEPT ![w] = "fold"]
  /\ frame' = [frame EXCEPT ![w] = Return(@)]
  /\ UNCHANGED <<codec, listing>>
  /\ UNCHANGED <<num_threads, dry_run, folders, server, snapshot, mainpc, mi,
                 threads, queue, unfinished, tmp, lock, stats, results,
                 takenBy, failedOpen>>

process_folder(w) ==
  \/ connect(w) \/ select_quoted(w) \/ select_plain(w) \/ search(w)
  \/ fetch(w) \/ store(w) \/ expunge(w) \/ close(w) \/ logout(w)

\* ---------------------------------------------------------------- worker
StatKeys == <<"total_messages", "duplicates_found", "duplicates_deleted",
              "errors">>
ResultKeys == <<"total", "duplicates", "deleted", "errors">>

\* a get that leaves the item on the queue
Peek(q) == q

\* queue.get(): what is left on the queue
Dequeue(q) == Tail(q)

\* the counters updated without the lock
NoLock == TRUE

\* `with self.lock` may be entered
LockFree == lock = 0

\* folder = queue.get(); break on None, else call process_folder
get(w) ==
  /\ pc[w] = "get"
  /\ queue # <<>>
  /\ LET item == Head(queue) IN
       /\ queue' = Dequeue(queue)
       /\ IF item = None
          THEN /\ pc' = [pc EXCEPT ![w] = "exit"]
               /\ UNCHANGED <<frame, trace, takenBy>>
          ELSE /\ pc' = [pc EXCEPT ![w] = "connect"]
               /\ frame' = [frame EXCEPT ![w] = NewFrame(w, item)]
               /\ trace' = [trace EXCEPT ![w] = <<>>]
               /\ takenBy' = [takenBy EXCEPT ![item] = @ + 1]
  /\ UNCHANGED <<sessions, codec, listing>>
  /\ UNCHANGED <<num_threads, dry_run, folders, server, snapshot, mainpc, mi,
                 threads, unfinished, tmp, lock, stats, results, failedOpen,
                 faults>>

\* with self.lock: results.append(result), and the read of the first
\* counter of self.stats
acquire(w) ==
  /\ pc[w] = "fold"
  /\ LockFree
  /\ lock' = w
  /\ results' = Append(results, frame[w].folder_stats)
  /\ tmp' = [tmp EXCEPT ![w] = [k |-> 1, v |-> stats[StatKeys[1]]]]
  /\ trace' = [trace EXCEPT ![w] = <<>>]
  /\ pc' = [pc EXCEPT ![w] = "add"]
  /\ UNCHANGED <<sessions, codec, listing>>
  /\ UNCHANGED <<num_threads, dry_run, folders, server, snapshot, mainpc, mi,
                 threads, queue, unfinished, frame, stats, takenBy,
                 failedOpen, faults>>

\* self.stats[key] += result[...]: the write of the sum to the counter that
\* was read, then the read of the next counter or the end of the with block
add(w) ==
  /\ pc[w] = "add"
  /\ LET k == tmp[w].k
         st == [stats EXCEPT ![StatKeys[k]] =
                  tmp[w].v + frame[w].folder_stats[ResultKeys[k]]]
     IN /\ stats' = st
        /\ IF k < Len(StatKeys)
           THEN /\ tmp' = [tmp EXCEPT ![w] =
                             [k |-> k + 1, v |-> st[StatKeys[k + 1]]]]
                /\ pc' = [pc EXCEPT ![w] = "add"]
                /\ lock' = lock
           ELSE /\ tmp' = [tmp EXCEPT ![w] = [k |-> 1, v |-> 0]]
                /\ pc' = [pc EXCEPT ![w] = "task_done"]
                /\ lock' = IF lock = w THEN 0 ELSE lock
  /\ UNCHANGED <<sessions, codec, listing>>
  /\ UNCHANGED <<num_threads, dry_run, folders, server, snapshot, mainpc, mi,
                 threads, queue, unfinished, frame, trace, results,
                 takenBy, failedOpen, faults>>

\* queue.task_done(), back to the top of the loop
task_done(w) ==
  /\ pc[w] = "task_done"
  /\ unfinished' = unfinished - 1
  /\ frame' = [frame EXCEPT ![w] = NoFrame]
  /\ pc' = [pc EXCEPT ![w] = "get"]
  /\ UNCHANGED <<sessions, codec, listing>>
  /\ UNCHANGED <<num_threads, dry_run, folders, server, snapshot, mainpc, mi,
                 threads, queue, trace, tmp, lock, stats, results, takenBy,
                 failedOpen,
                 faults>>

worker(w) ==
  \/ get(w) \/ process_folder(w) \/ acquire(w) \/ add(w) \/ task_done(w)

\* ------------------------------------------------------ remove_duplicates
\* a single stop signal for all workers
OneStopSignal == Min(threads, 1)

\* number of stop signals put on the queue
StopSignals == threads

\* mail = self.connect(): an exception leaves remove_duplicates
discovery_connect ==
  /\ mainpc = "connect"
  /\ \E r \in {"ok", "raise"} :
       /\ mainpc' = IF r = "ok" THEN "logout" ELSE "raised"
       /\ sessions' = IF r = "ok" THEN Opened(sessions, "discovery")
                       ELSE sessions
  /\ UNCHANGED <<codec, listing>>
  /\ UNCHANGED <<num_threads, dry_run, folders, server, snapshot, mi,
                 threads, queue, unfinished, pc, frame, trace, tmp, lock,
                 stats, results, takenBy, failedOpen,
                 faults>>

\* mail.logout(); if not folders: return
discovery_logout ==
  /\ mainpc = "logout"
  /\ \E r \in {"ok", "raise"} :
       /\ mainpc' = IF r = "raise" THEN "raised"
                    ELSE IF folders = <<>> THEN "done" ELSE "spawn"
       /\ sessions' = LoggedOut(sessions, "discovery", r)
  /\ mi' = 1
  /\ UNCHANGED <<codec, listing>>
  /\ UNCHANGED <<num_threads, dry_run, folders, server, snapshot,
                 threads, queue, unfinished, pc, frame, trace, tmp, lock,
                 stats, results, takenBy, failedOpen,
                 faults>>

\* for i in range(min(self.num_threads, len(folders))): t.start()
spawn ==
  /\ mainpc = "spawn"
  /\ threads' = threads + 1
  /\ pc' = [pc EXCEPT ![threads + 1] = "get"]
  /\ IF threads + 1 < Min(num_threads, Len(folders))
     THEN UNCHANGED <<mainpc, mi>>
     ELSE mainpc' = "put" /\ mi' = 1
  /\ UNCHANGED <<sessions, codec, listing>>
  /\ UNCHANGED <<num_threads, dry_run, folders, server, snapshot,
                 queue, unfinished, frame, trace, tmp, lock,
                 stats, results, takenBy, failedOpen,
                 faults>>

\* for folder in folders: queue.put(folder)
put ==
  /\ mainpc = "put"
  /\ queue' = Append(queue, folders[mi])
  /\ unfinished' = unfinished + 1
  /\ IF mi < Len(folders)
     THEN mi' = mi + 1 /\ UNCHANGED mainpc
     ELSE mi' = 1 /\ mainpc' = "join"
  /\ UNCHANGED <<sessions, codec, listing>>
  /\ UNCHANGED <<num_threads, dry_run, folders, server, snapshot,
                 threads, pc, frame, trace, tmp, lock,
                 stats, results, takenBy, failedOpen,
                 faults>>

\* queue.join() returns without waiting for the tasks
JoinedAtOnce == TRUE

\* queue.join() returns: every item put so far was marked done
Joined == unfinished = 0

\* queue.join()
join ==
  /\ mainpc = "join"
  /\ Joined
  /\ mainpc' = "stop"
  /\ mi' = 1
  /\ UNCHANGED <<sessions, codec, listing>>
  /\ UNCHANGED <<num_threads, dry_run, folders, server, snapshot,
                 threads, queue, unfinished, pc, frame, trace, tmp, lock,
                 stats, results, takenBy, failedOpen,
                 faults>>

\* for i in range(len(threads)): queue.put(None)
put_none ==
  /\ mainpc = "stop"
  /\ IF mi <= StopSignals
     THEN /\ queue' = Append(queue, None)
          /\ unfinished' = unfinished + 1
          /\ mi' = mi + 1
          /\ UNCHANGED mainpc
     ELSE /\ mainpc' = "wait"
          /\ mi' = 1
          /\ UNCHANGED <<queue, unfinished>>
  /\ UNCHANGED <<sessions, codec, listing>>
  /\ UNCHANGED <<num_threads, dry_run, folders, server, snapshot,
                 threads, pc, frame, trace, tmp, lock,
                 stats, results, takenBy, failedOpen,
                 faults>>

\* for t in threads: t.join(); then the summary is printed
join_threads ==
  /\ mainpc = "wait"
  /\ pc[mi] = "exit"
  /\ IF mi < threads
     THEN mi' = mi + 1 /\ UNCHANGED mainpc
     ELSE mi' = 1 /\ mainpc' = "done"
  /\ UNCHANGED <<sessions, codec, listing>>
  /\ UNCHANGED <<num_threads, dry_run, folders, server, snapshot,
                 threads, queue, unfinished, pc, frame, trace, tmp, lock,
                 stats, results, takenBy, failedOpen,
                 faults>>

remove_duplicates ==
  \/ discovery_connect \/ discovery_logout \/ spawn \/ put \/ join
  \/ put_none \/ join_threads

\* ------------------------------------------------- decode_folder_name
\* A string is the sequence of its code points.
Amp == 38                \* '&'
Dash == 45               \* '-'
Comma == 44              \* ','
Slash == 47              \* '/'

\* the result of a conversion that raised
Failed == <<0 - 1>>

\* the characters of the base64 alphabet: A-Z a-z 0-9 + /
B64Valid(c) == c \in (65..90) \cup (97..122) \cup (48..57) \cup {43, 47}

B64Val(c) ==
  CASE c \in 65..90 -> c - 65
    [] c \in 97..122 -> c - 71
    [] c \in 48..57 -> c + 4
    [] c = 43 -> 62
    [] OTHER -> 63

\* encoded_part.replace(',', '/')
Replace(p) == [k \in 1..Len(p) |-> IF p[k] = Comma THEN Slash ELSE p[k]]

\* padding = (4 - len(encoded_part) % 4) % 4
Padding(p) == (4 - (Len(p) % 4)) % 4

Bits6(n) == [i \in 1..6 |-> (n \div (2 ^ (6 - i))) % 2]

RECURSIVE BitsOf(_)
BitsOf(vs) ==
  IF vs = <<>> THEN <<>> ELSE Bits6(B64Val(Head(vs))) \o BitsOf(Tail(vs))

\* the number written by the bits bs, most significant first
RECURSIVE Value(_)
Value(bs) ==
  IF bs = <<>> THEN 0
  ELSE 2 * Value(SubSeq(bs, 1, Len(bs) - 1)) + bs[Len(bs)]

\* base64.b64decode(encoded_part) of p followed by `padding` '=' signs, p
\* holding no '=': characters outside the alphabet are discarded, each
\* character gives six bits, the whole bytes are kept; a lone last character
\* or missing padding raises.  The bytes are returned as their bits.
b64decode(p, padding) ==
  LET vs == SelectSeq(p, B64Valid)
      v  == Len(vs)
      need == CASE v % 4 = 2 -> 2 [] v % 4 = 3 -> 1 [] OTHER -> 0
  IN IF v % 4 = 1 \/ padding < need
     THEN Failed
     ELSE SubSeq(BitsOf(vs), 1, 8 * ((6 * v) \div 8))

IsHigh(u) == u \in 55296..56319      \* D800..DBFF
IsLow(u) == u \in 56320..57343       \* DC00..DFFF

\* the 16-bit units of a byte string of even length
Units(bits) ==
  [k \in 1..(Len(bits) \div 16) |->
     Value(SubSeq(bits, 16 * (k - 1) + 1, 16 * k))]

\* the characters written by UTF-16 units; an unpaired surrogate raises
RECURSIVE Utf16(_)
Utf16(us) ==
  IF us = <<>> THEN <<>>
  ELSE IF IsHigh(us[1])
       THEN IF Len(us) >= 2 /\ IsLow(us[2])
            THEN LET rest == Utf16(SubSeq(us, 3, Len(us)))
                 IN IF rest = Failed THEN Failed
                    ELSE <<65536 + (us[1] - 55296) * 1024 + (us[2] - 56320)>>
                         \o rest
            ELSE Failed
       ELSE IF IsLow(us[1]) THEN Failed
            ELSE LET rest == Utf16(Tail(us))
                 IN IF rest = Failed THEN Failed ELSE <<us[1]>> \o rest

\* decoded_bytes.decode('utf-16-be'): an odd number of bytes raises
decode_utf16(bits) ==
  IF Len(bits) % 16 # 0 THEN Failed ELSE Utf16(Units(bits))

\* the try block of decode_folder_name on one encoded part
DecodePart(p) ==
  LET q == Replace(p)
      b == b64decode(q, Padding(q))
  IN IF b = Failed THEN Failed ELSE decode_utf16(b)

\* folder_name.find('-', i), len(folder_name) when there is none; positions
\* count from 1
Find(s, i) ==
  LET ks == {k \in i..Len(s) : s[k] = Dash}
  IN IF ks = {} THEN Len(s) + 1
     ELSE CHOOSE k \in ks : \A j \in ks : k <= j

\* the escape marker taken to be the terminator
DashAsMarker == Dash

\* the escape marker of the encoding
Marker == Amp

\* the while loop of decode_folder_name from position i
RECURSIVE Scan(_, _)
Scan(s, i) ==
  IF i > Len(s) THEN <<>>
  ELSE IF s[i] = Marker
       THEN LET end == Find(s, i)
            IN IF end = i + 1
               THEN <<Amp>> \o Scan(s, end + 1)
               ELSE LET d == DecodePart(SubSeq(s, i + 1, end - 1))
                    IN (IF d = Failed THEN SubSeq(s, i, Min(end, Len(s)))
                        ELSE d) \o Scan(s, end + 1)
       ELSE <<s[i]>> \o Scan(s, i + 1)

decode_folder_name(folder_name) ==
  IF Marker \in Range(folder_name) THEN Scan(folder_name, 1)
  ELSE folder_name

\* ---------------------------------------------------- should_skip_folder
SKIP_FOLDERS ==
  <<<<116, 114, 97, 115, 104>>,
    <<100, 101, 108, 101, 116, 101, 100>>,
    <<115, 112, 97, 109>>,
    <<106, 117, 110, 107>>,
    <<100, 114, 97, 102, 116, 115>>,
    <<100, 114, 97, 102, 116>>,
    <<1082, 1086, 1088, 1079, 1080, 1085, 1072>>,
    <<1091, 1076, 1072, 1083, 1077, 1085, 1085, 1099, 1077>>,
    <<1089, 1087, 1072, 1084>>,
    <<1084, 1091, 1089, 1086, 1088>>,
    <<1095, 1077, 1088, 1085, 1086, 1074, 1080, 1082, 1080>>,
    <<1095, 1077, 1088, 1085, 1086, 1074, 1080, 1082>>,
    <<91, 103, 109, 97, 105, 108, 93, 47, 116, 114, 97, 115, 104>>,
    <<91, 103, 109, 97, 105, 108, 93, 47, 115, 112, 97, 109>>,
    <<91, 103, 109, 97, 105, 108, 93, 47, 100, 114, 97, 102, 116, 115>>,
    <<100, 101, 108, 101, 116, 101, 100, 32, 105, 116, 101, 109, 115>>,
    <<100, 101, 108, 101, 116, 101, 100, 32, 109, 101, 115, 115, 97, 103, 101, 115>>,
    <<106, 117, 110, 107, 32, 101, 109, 97, 105, 108>>>>

\* str.lower() on Latin and Cyrillic letters
Lower(c) ==
  CASE c \in 65..90 -> c + 32
    [] c \in 1040..1071 -> c + 32
    [] c \in 1024..1039 -> c + 80
    [] OTHER -> c

lower(s) == [k \in 1..Len(s) |-> Lower(s[k])]

\* skip_pattern in folder_lower
Contains(s, pat) ==
  \E k \in 0..(Len(s) - Len(pat)) : SubSeq(s, k + 1, k + Len(pat)) = pat

should_skip_folder(folder_name) ==
  \E k \in 1..Len(SKIP_FOLDERS) : Contains(lower(folder_name), SKIP_FOLDERS[k])

\* ------------------------------------------------------------ get_folders
Dot == 46                \* '.'

\* folder names given to decode_folder_name: over 'a', 'B', '&', '-'
CodecChars == {97, 66, Amp, Dash}

\* no call of decode_folder_name
NoCodec == [folder_name |-> <<>>, decoded |-> <<>>, pc |-> "none"]

\* decode_folder_name(folder_name) is called and returns
decode ==
  /\ codec.pc = "call"
  /\ codec' = [codec EXCEPT !.decoded = decode_folder_name(codec.folder_name),
                            !.pc = "returned"]
  /\ UNCHANGED <<num_threads, dry_run, folders, server, snapshot, mainpc, mi,
                 threads, queue, unfinished, pc, frame, trace, tmp, lock,
                 stats, results, takenBy, failedOpen, faults, sessions,
                 listing>>

\* folder names a listing line may carry: '', '.', 'a', '&-', 'Junk', and
\* '&BCEEPwQwBDw-', the encoding of the Cyrillic word for spam, capitalised
ListedNames ==
  {<<>>, <<Dot>>, <<97>>, <<Amp, Dash>>, <<74, 117, 110, 107>>,
   <<38, 66, 67, 69, 69, 80, 119, 81, 119, 66, 68, 119, 45>>}

\* the elements of folder_list by what the two patterns make of them:
\* "quoted" matches pattern1, "bare" only pattern2 (its name is not empty),
\* "other" matches neither, "object" is not a bytes object (decode raises)
ListingLines ==
  {[form |-> "quoted", name |-> n] : n \in ListedNames}
  \cup {[form |-> "bare", name |-> n] : n \in ListedNames \ {<<>>}}
  \cup {[form |-> "other", name |-> <<>>], [form |-> "object", name |-> <<>>]}

\* no call of get_folders
NoListing ==
  [lines |-> <<>>, skip_system |-> FALSE, i |-> 0, folders |-> <<>>,
   pc |-> "none"]

\* status, folder_list = mail.list(): the lines are iterated when the status
\* is OK; a response that is not OK, or an exception, carries no lines
mail_list ==
  /\ listing.pc = "list"
  /\ \E r \in IF listing.lines = <<>> THEN {"ok", "no", "raise"} ELSE {"ok"} :
       listing' = [listing EXCEPT !.pc = IF r = "ok" THEN "loop" ELSE "return"]
  /\ UNCHANGED <<num_threads, dry_run, folders, server, snapshot, mainpc, mi,
                 threads, queue, unfinished, pc, frame, trace, tmp, lock,
                 stats, results, takenBy, failedOpen, faults, sessions,
                 codec>>

\* the decoded name is put in the result
AppendedDecoded(folder_name, decoded_name) == decoded_name

\* folders.append(folder_name)
Appended(folder_name, decoded_name) == folder_name

\* the body of the for loop on one element of folder_list
LineEffect(fs, ln, skip_system) ==
  IF ln.form = "object" THEN fs                \* except Exception: continue
  ELSE IF ln.form \notin {"quoted", "bare"} THEN fs       \* else: continue
  ELSE LET folder_name == ln.name
           decoded_name == decode_folder_name(folder_name)
       IN IF folder_name = <<>> \/ folder_name = <<Dot>> THEN fs
          ELSE IF skip_system /\ should_skip_folder(decoded_name) THEN fs
          ELSE Append(fs, Appended(folder_name, decoded_name))

\* for folder_info in folder_list: one element
folder_line ==
  /\ listing.pc = "loop"
  /\ listing.i <= Len(listing.lines)
  /\ listing' = [listing EXCEPT
                   !.folders = LineEffect(@, listing.lines[listing.i],
                                          listing.skip_system),
                   !.i = @ + 1]
  /\ UNCHANGED <<num_threads, dry_run, folders, server, snapshot, mainpc, mi,
                 threads, queue, unfinished, pc, frame, trace, tmp, lock,
                 stats, results, takenBy, failedOpen, faults, sessions,
                 codec>>

\* return folders
get_folders_return ==
  /\ \/ listing.pc = "return"
     \/ listing.pc = "loop" /\ listing.i > Len(listing.lines)
  /\ listing' = [listing EXCEPT !.pc = "returned"]
  /\ UNCHANGED <<num_threads, dry_run, folders, server, snapshot, mainpc, mi,
                 threads, queue, unfinished, pc, frame, trace, tmp, lock,
                 stats, results, takenBy, failedOpen, faults, sessions,
                 codec>>

get_folders == mail_list \/ folder_line \/ get_folders_return

\* ------------------------------------------------------------ behaviours
\* folder i of a pool run
PoolContent(i) ==
  CASE i = 1 -> <<"A", "A">>
    [] i = 2 -> <<"C">>
    [] OTHER -> <<>>

InitPool ==
  /\ snapshot = server
  /\ mainpc = "connect"
  /\ mi = 1
  /\ threads = 0
  /\ queue = <<>>
  /\ unfinished = 0
  /\ pc = [w \in Workers |-> "idle"]
  /\ frame = [w \in Workers |-> NoFrame]
  /\ trace = [w \in Workers |-> <<>>]
  /\ tmp = [w \in Workers |-> [k |-> 1, v |-> 0]]
  /\ lock = 0
  /\ stats = [total_messages |-> 0, duplicates_found |-> 0,
              duplicates_deleted |-> 0, errors |-> 0]
  /\ results = <<>>
  /\ takenBy = [i \in 1..Len(folders) |-> 0]
  /\ failedOpen = {}
  /\ sessions = [discovery |-> 0, workers |-> 0]

\* remove_duplicates is called; no call of decode_folder_name or get_folders
\* is followed
InitRun ==
  /\ InitPool
  /\ codec = NoCodec
  /\ listing = NoListing

\* the failing session operations of a pool run over n folders: at most
\* MaxFaults, and folders and failures together at most MaxFolders + 1
PoolFaults(n) == Min(MaxFaults, MaxFolders + 1 - n)

\* a run of the pool over up to MaxFolders folders
Init ==
  /\ num_threads \in 1..MaxThreads
  /\ dry_run \in BOOLEAN
  /\ \E n \in 0..MaxFolders : folders = [i \in 1..n |-> i]
  /\ server = [i \in 1..Len(folders) |-> Mailbox(PoolContent(i), {}, {})]
  /\ faults = PoolFaults(Len(folders))
  /\ InitRun

\* a run over one folder of any content up to MaxMsgs messages, its first
\* message possibly flagged \Deleted already, with any number of failing
\* session operations
InitFolder ==
  /\ num_threads = 1
  /\ dry_run \in BOOLEAN
  /\ folders = <<1>>
  /\ \E fps \in SeqsUpTo(Fingerprints, MaxMsgs) :
       \E del \in {{}, {1} \cap (1..Len(fps))} :
         server = [i \in {1} |-> Mailbox(fps, del, {})]
  /\ faults = AnyFaults
  /\ InitRun

Next == remove_duplicates \/ \E w \in Workers : worker(w)

Spec == Init /\ [][Next]_vars

FolderSpec == InitFolder /\ [][Next]_vars

\* a live run of the pool over a non-empty folder list in which at most one
\* session operation fails
InitLive ==
  /\ num_threads \in 1..MaxThreads
  /\ dry_run = FALSE
  /\ \E n \in 1..MaxFolders : folders = [i \in 1..n |-> i]
  /\ server = [i \in 1..Len(folders) |-> Mailbox(PoolContent(i), {}, {})]
  /\ faults = Min(MaxFaults, 1)
  /\ InitRun

\* threads are scheduled fairly and every session operation returns
FairSpec == InitLive /\ [][Next]_vars /\ WF_vars(Next)

\* remove_duplicates is not called
NoRun ==
  /\ num_threads = 1
  /\ dry_run = TRUE
  /\ folders = <<>>
  /\ server = <<>>
  /\ faults = 0
  /\ InitPool

\* decode_folder_name is called on any name of at most MaxName characters
InitCodec ==
  /\ \E s \in SeqsUpTo(CodecChars, MaxName) :
       codec = [folder_name |-> s, decoded |-> <<>>, pc |-> "call"]
  /\ listing = NoListing
  /\ NoRun

CodecSpec == InitCodec /\ [][decode]_vars

\* get_folders is called on any listing of at most MaxLines lines
InitListing ==
  /\ \E ls \in SeqsUpTo(ListingLines, MaxLines) :
       \E b \in BOOLEAN :
         listing = [lines |-> ls, skip_system |-> b, i |-> 1,
                    folders |-> <<>>, pc |-> "list"]
  /\ codec = NoCodec
  /\ NoRun

ListingSpec == InitListing /\ [][get_folders]_vars

\* ------------------------------------------- reading a call's trace
Issued(tr, o) == \E k \in 1..Len(tr) : tr[k].op = o

Succeeded(tr, o) == \E k \in 1..Len(tr) : tr[k].op = o /\ tr[k].out = "ok"

Raised(tr, o) == \E k \in 1..Len(tr) : tr[k].op = o /\ tr[k].out = "raise"

Count(tr, o, outs) ==
  Cardinality({k \in 1..Len(tr) : tr[k].op = o /\ tr[k].out \in outs})

\* the messages whose fetch returned OK, in fetch order
FetchedOK(tr) ==
  LET ok == SelectSeq(tr, LAMBDA e : e.op = "fetch" /\ e.out = "ok")
  IN [k \in 1..Len(ok) |-> ok[k].arg]

\* the messages a store was issued for
Marked(tr) == {tr[k].arg : k \in {j \in 1..Len(tr) : tr[j].op = "store"}}

\* the fingerprint group of h among the fetched messages, in fetch order
Group(box, tr, h) == SelectSeq(FetchedOK(tr), LAMBDA id : box.fp[id] = h)

\* sum over the groups of (group size - 1)
RECURSIVE SumOver(_, _, _)
SumOver(H, box, tr) ==
  IF H = {} THEN 0
  ELSE LET h == CHOOSE x \in H : TRUE
           n == Len(Group(box, tr, h))
       IN (IF n > 1 THEN n - 1 ELSE 0) + SumOver(H \ {h}, box, tr)

ExpectedDuplicates(box, tr) == SumOver(Fingerprints, box, tr)

Returned(w) == pc[w] = "fold"

\* the FolderResult of process_folder on folder f holding box, from the
\* outcomes in tr of the session operations of that call alone
AloneResult(f, box, dry, tr) ==
  LET searched  == Succeeded(tr, "search")
      total     == IF searched THEN Len(SearchAll(box)) ELSE 0
      finalized == searched /\ total > 0 /\ ~Raised(tr, "expunge")
  IN [folder |-> f,
      total |-> total,
      duplicates |-> IF finalized THEN ExpectedDuplicates(box, tr) ELSE 0,
      deleted |-> IF finalized THEN Count(tr, "store", {"ok", "no"}) ELSE 0,
      errors |-> Count(tr, "connect", {"raise"}) + Count(tr, "search", {"raise"})
                 + Count(tr, "fetch", {"raise"}) + Count(tr, "store", {"raise"})
                 + Count(tr, "expunge", {"raise"})]

\* ------------------------------------------------------------------ claims

\* C1: at the return of process_folder, for every fingerprint group of the
\* fetched messages the first-fetched member was not marked, in a live run
\* a mark was attempted for every other member, and duplicatesFound is the
\* sum over the groups of (group size - 1).
C1_KeepFirstMarkRest ==
  \A w \in Workers : Returned(w) =>
    LET f == frame[w].folder
        tr == trace[w]
    IN /\ \A h \in Fingerprints :
            LET g == Group(snapshot[f], tr, h)
            IN Len(g) > 0 =>
                 /\ g[1] \notin Marked(tr)
                 /\ ~dry_run => \A k \in 2..Len(g) : g[k] \in Marked(tr)
       /\ frame[w].folder_stats.duplicates = ExpectedDuplicates(snapshot[f], tr)

\* C2: a dry-run call of process_folder issues no store and no expunge,
\* leaves the folder on the server as it was, and returns duplicatesDeleted 0.
C2_DryRunNoMutation ==
  dry_run =>
    \A w \in Workers : Returned(w) =>
      /\ ~Issued(trace[w], "store")
      /\ ~Issued(trace[w], "expunge")
      /\ server[frame[w].folder] = snapshot[frame[w].folder]
      /\ frame[w].folder_stats.deleted = 0

\* what a dry-run call returns as duplicatesFound for the snapshot box and
\* the connect/select/search/fetch outcomes of tr
DryRunDuplicates(box, tr) ==
  IF Succeeded(tr, "search") THEN ExpectedDuplicates(box, tr) ELSE 0

\* C3: whatever the mark and expunge outcomes, a call returns the
\* duplicatesFound that a dry-run call returns for the same snapshot and the
\* same connect/select/search/fetch outcomes.
C3_SameFoundAsDryRun ==
  \A w \in Workers : Returned(w) =>
    frame[w].folder_stats.duplicates =
      DryRunDuplicates(snapshot[frame[w].folder], trace[w])

SelectFailed(tr) == Issued(tr, "select") /\ ~Succeeded(tr, "select")

\* C4: when select fails, process_folder returns total, duplicates and
\* deleted 0 with errors >= 1, and the run-level error count includes every
\* such failure.
C4_SelectFailureRecorded ==
  /\ \A w \in Workers : Returned(w) /\ SelectFailed(trace[w]) =>
       /\ frame[w].folder_stats.total = 0
       /\ frame[w].folder_stats.duplicates = 0
       /\ frame[w].folder_stats.deleted = 0
       /\ frame[w].folder_stats.errors >= 1
  /\ mainpc = "done" => stats.errors >= Cardinality(failedOpen)

\* C5: in a run of the pool every folder's FolderResult is produced, once,
\* and is the result that folder yields when processed alone, also when
\* another folder failed to connect or to open.
C5_FaultIsolation ==
  /\ \A w \in Workers : Returned(w) =>
       frame[w].folder_stats =
         AloneResult(frame[w].folder, snapshot[frame[w].folder], dry_run,
                     trace[w])
  /\ mainpc = "done" =>
       \A i \in 1..Len(folders) :
         Cardinality({k \in 1..Len(results) :
                        results[k].folder = folders[i]}) = 1

\* a run has ended in which one folder failed to open and another folder's
\* duplicates were found
C5_Witness ==
  /\ mainpc = "done"
  /\ failedOpen # {}
  /\ \E k \in 1..Len(results) :
       results[k].folder \notin failedOpen /\ results[k].duplicates > 0

\* C6: when process_folder returns after a session was acquired, close and
\* logout were both issued on it.
C6_SessionReleased ==
  \A w \in Workers : Returned(w) /\ Succeeded(trace[w], "connect") =>
    /\ Issued(trace[w], "close")
    /\ Issued(trace[w], "logout")

\* C7: when remove_duplicates finishes, each RunStats counter is the sum of
\* the corresponding field over the FolderResults of all folders.
C7_StatsAreSums ==
  mainpc = "done" =>
    /\ Len(results) = Len(folders)
    /\ \A k \in 1..Len(StatKeys) :
         stats[StatKeys[k]] =
           SumSeq([j \in 1..Len(results) |-> results[j][ResultKeys[k]]])

\* a run with two workers has ended with messages counted in two folders
\* and a duplicate deleted
C7_Witness ==
  /\ mainpc = "done"
  /\ threads >= 2
  /\ stats.total_messages >= 3
  /\ stats.duplicates_deleted >= 1

\* workers inside process_folder for folder f, or holding its result
Processing(f) ==
  {w \in Workers : frame[w].folder = f
                   /\ pc[w] \notin {"idle", "get", "exit"}}

\* C8: every entry of the folder list is dequeued and passed to
\* process_folder at most once, by one worker, and exactly once when the run
\* returns.
C8_EachFolderOnce ==
  \A i \in 1..Len(folders) :
    /\ takenBy[folders[i]] <= 1
    /\ Cardinality(Processing(folders[i])) <= takenBy[folders[i]]
    /\ mainpc = "done" =>
         /\ takenBy[folders[i]] = 1
         /\ Processing(folders[i]) = {}

\* a run of two workers over at least two folders has returned
C8_Witness ==
  /\ mainpc = "done"
  /\ threads >= 2
  /\ Len(folders) >= 2
  /\ Len(results) >= 2

InProcessFolder ==
  {"connect", "select", "select2", "search", "fetch", "store", "expunge",
   "close", "logout"}

RECURSIVE SumTaken(_)
SumTaken(i) == IF i = 0 THEN 0 ELSE takenBy[folders[i]] + SumTaken(i - 1)

\* C10: every call of process_folder returns a FolderResult to its worker,
\* whichever session operation failed: each dequeued folder is in a call
\* that is still running, or its result is held by the worker that is
\* folding it, or it is in results and the worker is back at the queue.
C10_AlwaysReturns ==
  /\ \A w \in Workers :
       pc[w] \in InProcessFolder \cup
                 {"idle", "get", "fold", "add", "task_done", "exit"}
  /\ SumTaken(Len(folders)) =
       Len(results)
       + Cardinality({w \in Workers : pc[w] \in InProcessFolder \cup {"fold"}})

\* a worker is back at the queue after a call in which an operation on the
\* selected folder raised
C10_Witness ==
  \E w \in Workers :
    /\ pc[w] = "get"
    /\ \E k \in 1..Len(results) :
         results[k].total > 0 /\ results[k].errors > 0

\* the session operations of a call that did not succeed
Failures(tr) == Cardinality({k \in 1..Len(tr) : tr[k].out # "ok"})

\* C11: remove_duplicates is stopped by an exception only at the discovery
\* connect, and then no worker was started and RunStats is untouched; every
\* other failed session operation is counted in the errors of its folder.
C11_OnlyDiscoveryConnectStops ==
  /\ [][mainpc' = "raised" => mainpc = "connect"]_vars
  /\ [](mainpc = "raised" =>
          /\ threads = 0
          /\ \A k \in 1..Len(StatKeys) : stats[StatKeys[k]] = 0)
  /\ [](\A w \in Workers : Returned(w) =>
          frame[w].folder_stats.errors >= Failures(trace[w]))

\* C12 as stated: decode_folder_name returns every ASCII name unchanged.
C12_AsciiUnchanged ==
  codec.pc = "returned" => codec.decoded = codec.folder_name

\* C12: decode_folder_name returns unchanged every ASCII name that holds no
\* escape marker '&'.
C12_NoMarkerUnchanged ==
  (codec.pc = "returned" /\ Amp \notin Range(codec.folder_name))
    => codec.decoded = codec.folder_name

\* a name with a '-' and a letter but no '&' has been decoded
C12_Witness ==
  /\ codec.pc = "returned"
  /\ Amp \notin Range(codec.folder_name)
  /\ Dash \in Range(codec.folder_name)
  /\ 97 \in Range(codec.folder_name)

\* the deletion candidates of a call: in every fingerprint group of the
\* fetched messages, the members after the first
ExpectedCandidates(box, tr) ==
  UNION {{Group(box, tr, h)[k] : k \in 2..Len(Group(box, tr, h))} :
           h \in Fingerprints}

\* the positions in tr of the operations o
Positions(tr, o) == {k \in 1..Len(tr) : tr[k].op = o}

\* C13: at the return of process_folder an expunge was issued if and only
\* if the run is live and some store succeeded; it was issued at most once,
\* after every store, and a store was issued for every deletion candidate.
C13_ExpungeIffMarked ==
  \A w \in Workers : Returned(w) =>
    LET tr == trace[w]
        ex == Positions(tr, "expunge")
    IN /\ (ex # {}) <=> (~dry_run /\ Count(tr, "store", {"ok"}) > 0)
       /\ Cardinality(ex) <= 1
       /\ \A e \in ex :
            /\ \A k \in Positions(tr, "store") : k < e
            /\ ExpectedCandidates(snapshot[frame[w].folder], tr)
                 \subseteq Marked(tr)

\* the messages whose fetch did not return OK
FetchFailed(tr) ==
  {tr[k].arg : k \in {j \in Positions(tr, "fetch") : tr[j].out # "ok"}}

\* C14: a message whose fetch returned a non-OK status or raised is in no
\* fingerprint group and is never marked, no message is fetched twice, every
\* message found by the search is fetched, and each failed fetch is counted
\* in the errors of the FolderResult.
C14_FetchFailureCounted ==
  \A w \in Workers :
    LET tr == trace[w]
    IN /\ \A k \in 1..Len(frame[w].hash_to_ids) :
            Range(frame[w].hash_to_ids[k].ids) \cap FetchFailed(tr) = {}
       /\ Marked(tr) \cap FetchFailed(tr) = {}
       /\ \A j, k \in Positions(tr, "fetch") : tr[j].arg = tr[k].arg => j = k
       /\ Returned(w) =>
            /\ Succeeded(tr, "search") =>
                 \A id \in Range(SearchAll(snapshot[frame[w].folder])) :
                   \E k \in Positions(tr, "fetch") : tr[k].arg = id
            /\ frame[w].folder_stats.errors >=
                 Count(tr, "fetch", {"no", "raise"})

\* C15: in a live run every store that returned a non-OK status or raised is
\* counted in the errors of the FolderResult and not in its deleted count,
\* and a store was still issued for every deletion candidate.
C15_MarkFailureCounted ==
  ~dry_run =>
    \A w \in Workers : Returned(w) =>
      LET tr == trace[w]
      IN /\ frame[w].folder_stats.errors >= Count(tr, "store", {"no", "raise"})
         /\ frame[w].folder_stats.deleted <= Count(tr, "store", {"ok"})
         /\ ExpectedCandidates(snapshot[frame[w].folder], tr)
              \subseteq Marked(tr)

\* a listing line whose name get_folders is to return: it parses, its name
\* is not empty and not '.', and it is not filtered out
Listed(ln, skip_system) ==
  /\ ln.form \in {"quoted", "bare"}
  /\ ln.name # <<>>
  /\ ln.name # <<Dot>>
  /\ ~(skip_system /\ should_skip_folder(decode_folder_name(ln.name)))

\* the raw names of the listed lines, in the order of the listing
ExpectedFolders(lines, skip_system) ==
  LET kept == SelectSeq(lines, LAMBDA ln : Listed(ln, skip_system))
  IN [k \in 1..Len(kept) |-> kept[k].name]

\* C16: get_folders returns, in the order of the listing, the raw names of
\* the lines that parse, are not empty and not '.', and whose decoded name
\* does not match the skip filter when skip_system is set; after every line
\* the result is that of the lines read so far, whatever the line was.
C16_ListingFiltered ==
  /\ listing.pc = "returned" =>
       listing.folders = ExpectedFolders(listing.lines, listing.skip_system)
  /\ listing.pc = "loop" =>
       listing.folders =
         ExpectedFolders(SubSeq(listing.lines, 1, listing.i - 1),
                         listing.skip_system)

\* get_folders has returned the encoded name '&-' that followed an element
\* it could not read
C16_Witness ==
  /\ listing.pc = "returned"
  /\ Len(listing.lines) >= 2
  /\ listing.lines[1].form = "object"
  /\ listing.lines[2].name = <<Amp, Dash>>
  /\ listing.folders = <<<<Amp, Dash>>>>

\* the workers inside the section that updates self.stats
InSection == {w \in Workers : pc[w] = "add"}

\* C17: at most one worker is inside the section that updates self.stats and
\* it holds self.lock; self.stats is changed only by a step of the lock
\* holder; the lock leaves its holder only when the holder has written the
\* last of the four counters.
C17_StatsUnderLock ==
  /\ [](Cardinality(InSection) <= 1 /\ \A w \in InSection : lock = w)
  /\ [][stats' # stats =>
          /\ lock \in InSection
          /\ \A v \in Workers \ {lock} : pc'[v] = pc[v] /\ tmp'[v] = tmp[v]]_vars
  /\ [][(lock # 0 /\ lock' # lock) =>
          /\ lock' = 0
          /\ tmp[lock].k = Len(StatKeys)
          /\ pc'[lock] = "task_done"]_vars

\* a worker is at its third counter while another worker, back from
\* process_folder with its result, waits for the lock
C17_Witness ==
  \E w, v \in Workers :
    /\ w # v
    /\ pc[w] = "add"
    /\ tmp[w].k = 3
    /\ lock = w
    /\ pc[v] = "fold"

\* the stop signals waiting in the queue
StopsInQueue == Cardinality({k \in 1..Len(queue) : queue[k] = None})

\* the workers that took a stop signal
Exited == {w \in Workers : pc[w] = "exit"}

\* C18: a stop signal is on the queue or taken only when every folder was
\* dequeued once, processed, folded into results and self.stats and marked
\* done; the stop signals put (the items left unfinished after queue.join)
\* are the ones waiting plus the ones taken, one per spawned worker once all
\* are put; a worker that took one takes nothing more, and at the return
\* every spawned worker took one.
C18_StopAfterAllFolded ==
  /\ []((Exited # {} \/ StopsInQueue > 0) =>
          /\ mainpc \in {"stop", "wait", "done"}
          /\ Len(results) = Len(folders)
          /\ \A i \in 1..Len(folders) : takenBy[folders[i]] = 1
          /\ \A w \in Workers : pc[w] \in {"idle", "get", "exit"}
          /\ lock = 0)
  /\ [](mainpc \in {"stop", "wait", "done"} =>
          /\ StopsInQueue + Cardinality(Exited) = unfinished
          /\ unfinished <= threads)
  /\ [](mainpc \in {"wait", "done"} => unfinished = threads)
  /\ []((mainpc = "done" /\ folders # <<>>) =>
          Exited = 1..threads /\ StopsInQueue = 0)
  /\ [][\A w \in Exited : pc'[w] = "exit"]_vars

\* one worker took its stop signal, the other has not yet taken the one
\* that waits for it
C18_Witness ==
  \E w, v \in Workers :
    /\ pc[w] = "exit"
    /\ pc[v] = "get"
    /\ StopsInQueue = 1
    /\ Len(results) >= 2

\* C19: a call of process_folder connects at most once; in the worker phase
\* the sessions connected and not yet logged out are at most as many as the
\* spawned workers; the discovery session is logged out before a worker
\* session is opened.
C19_SessionPerWorker ==
  /\ \A w \in Workers : Count(trace[w], "connect", {"ok", "raise"}) <= 1
  /\ threads > 0 => sessions.discovery + sessions.workers <= threads
  /\ sessions.workers > 0 => sessions.discovery = 0

\* C20: the FolderResult of a live call has deleted equal to the number of
\* stores that succeeded in the call and duplicates equal to the number of
\* its deletion candidates, whatever the outcome of expunge.
C20_CountsSurviveExpunge ==
  ~dry_run =>
    \A w \in Workers : Returned(w) =>
      /\ frame[w].folder_stats.deleted = Count(trace[w], "store", {"ok"})
      /\ frame[w].folder_stats.duplicates =
           Cardinality(ExpectedCandidates(snapshot[frame[w].folder], trace[w]))

\* the order between the counters total t, duplicates f and deleted d
Ordered(t, f, d) ==
  /\ 0 <= d
  /\ d <= f
  /\ f <= t
  /\ t > 0 => f < t

\* C21: every FolderResult returned by process_folder, and every one in
\* results, has 0 <= deleted <= duplicates <= total, with duplicates < total
\* when total > 0; the counters of self.stats are in the same order in every
\* reachable state, also between two of the four updates of a fold.
C21_CountersOrdered ==
  /\ \A w \in Workers : Returned(w) =>
       Ordered(frame[w].folder_stats.total, frame[w].folder_stats.duplicates,
               frame[w].folder_stats.deleted)
  /\ \A k \in 1..Len(results) :
       Ordered(results[k].total, results[k].duplicates, results[k].deleted)
  /\ Ordered(stats.total_messages, stats.duplicates_found,
             stats.duplicates_deleted)

\* a worker has added the total of a folder with a deleted duplicate to
\* self.stats and not yet its duplicates, after another folder was folded
C21_Witness ==
  \E w \in Workers :
    /\ pc[w] = "add"
    /\ tmp[w].k = 2
    /\ frame[w].folder_stats.deleted >= 1
    /\ Len(results) >= 2
    /\ stats.total_messages >= 3

====
